---- MODULE Spec2Model ----
(***************************************************************************)
(* Model of the script execution subsystem of DollarClub:                  *)
(*   - the durable `scripts` table (app/models/script.py),                 *)
(*   - the API handlers that submit and cancel a run (app/api/scripts.py), *)
(*   - the Celery task execute_script, the supervisor that launches the    *)
(*     child process and streams its output (app/tasks/script_execution.py)*)
(*   - the cancel_script task and the worker-startup hook                  *)
(*     cleanup_stale_scripts (app/tasks/celery_app.py),                    *)
(*   - the child process and its descendants as the environment.           *)
(*                                                                         *)
(* Time is a logical clock `now`.  One tick stands for one second of the   *)
(* heartbeat arithmetic; MAX_EXECUTION_TIME is scaled down from 3600 to a  *)
(* handful of ticks, keeping the order                                     *)
(*     heartbeat_interval < StatusAfter < MAX_EXECUTION_TIME               *)
(* that the code's comparisons depend on.                                  *)
(***************************************************************************)
EXTENDS Integers, Sequences, FiniteSets, TLC

\* ------------------------------------------------------------------ bounds
MaxLines == 2       \* lines one child writes at most
MaxTime  == 5       \* the clock stops here
MaxQueue == 2       \* run requests waiting in the broker at most

\* ------------------------------------------------------- program constants
MAX_EXECUTION_TIME     == 4   \* settings.MAX_EXECUTION_TIME (3600 s), scaled
MAX_CONCURRENT_SCRIPTS == 2   \* settings.MAX_CONCURRENT_SCRIPTS (5), scaled
heartbeat_interval     == 2   \* heartbeat_interval = 2.0
StatusAfter            == 3   \* "Add status after 3 seconds"

Scripts == {1, 2, 3}          \* ids of the uploaded scripts (one user owns all)
W1 == "w1"
W2 == "w2"
Workers == {W1, W2}           \* pool processes that run execute_script

\* ScriptStatus
UPLOADED  == "UPLOADED"
RUNNING   == "RUNNING"
COMPLETED == "COMPLETED"
FAILED    == "FAILED"
CANCELLED == "CANCELLED"
ScriptStatus == {UPLOADED, RUNNING, COMPLETED, FAILED, CANCELLED}
Terminal == {COMPLETED, FAILED, CANCELLED}

\* NULL of each column type
NoTime == -1
NoCode == -100
NoMsg  == "NULL"
NoTask == "NULL"

\* exit codes a script ends with on its own; what poll() gives after a signal
ExitCodes == {0, 3}
SIGKILLED == -9
SIGTERMED == -15

\* texts
Line(k) == "Line " \o ToString(k)
CancelMarker  == "[Cancelled by user at <ts>]"
TaskCancelMarker == "[Script cancelled by user]"
StatusMarker  == "[Status: Script running...]"
WaitingMarker == "[Script started, waiting for output...]"
RestartMarker == "[Worker restarted - script terminated]"
PkgFailedLog  == "Package validation failed."

\* the lists validate_packages can report as missing
MissingLists == { << "foo_bar_baz" >>, << "foo_bar_baz", "opencv-python" >> }

\* a join that keeps the first name only
JoinFirstOnly(names, sep) == IF names = << >> THEN "" ELSE names[1]

\* sep.join(names)
RECURSIVE Join(_, _)
Join(names, sep) ==
  IF names = << >> THEN ""
  ELSE IF Len(names) = 1 THEN names[1]
  ELSE names[1] \o sep \o Join(Tail(names), sep)

\* PackageValidator.get_install_command
get_install_command(packages) ==
  IF packages = << >> THEN "" ELSE "pip install " \o Join(packages, " ")

MsgHead == "Missing Python packages detected!\n\nYour script requires the following packages that are not installed:\n"
MsgMid  == "\n\nTo install these packages, run:\n"
MsgTail == "\n\nOr ask your administrator to install them in the backend environment."

\* PackageValidator.create_error_message
create_error_message(missing_packages) ==
  IF missing_packages = << >> THEN ""
  ELSE MsgHead \o Join(missing_packages, ", ") \o MsgMid
         \o get_install_command(missing_packages) \o MsgTail
FileMissingMsg == "Script file not found"
SpawnErrorMsg == "spawn failed"
TimeoutMsg    == "Script execution exceeded MAX_EXECUTION_TIME seconds"
RestartMsg    == "Worker was restarted while script was running"
ReadErrorMsg  == "[Errno 5] Input/output error"
ExitMsg(c)    == "Script exited with code " \o (IF c = NoCode THEN "None" ELSE ToString(c))

\* ------------------------------------------------------------ the record
\* One row of `scripts`, the columns the execution touches.  celery_task_id
\* is a column of the table (alembic 002) but no mapped attribute of the
\* Script class: an assignment `script.celery_task_id = x` sets a plain
\* Python attribute and no commit ever writes the column.
NewScript ==
  [ status         |-> UPLOADED,
    started_at     |-> NoTime,
    completed_at   |-> NoTime,
    execution_logs |-> << >>,
    error_message  |-> NoMsg,
    exit_code      |-> NoCode,
    celery_task_id |-> NoTask ]

\* what db holds for an id whose row has been deleted: query(...).first()
\* returns None
NoRecord == [NewScript EXCEPT !.status = "no row"]

TimeColumns == {"started_at", "completed_at"}

\* a Script class that also declares the celery_task_id column
MappedColumnsWithHandle ==
  {"status", "started_at", "completed_at", "execution_logs", "error_message",
   "exit_code", "celery_task_id"}

\* the Column attributes of class Script among the fields above
MappedColumns ==
  {"status", "started_at", "completed_at", "execution_logs", "error_message",
   "exit_code"}

\* task.id of the request execute_script.delay() has enqueued
TaskId == "task-id"

\* Session.commit() after attribute assignments: the UPDATE carries only the
\* columns whose assigned value differs from the value this session loaded
\* last (a datetime.utcnow() always differs).  `stored` is the row, `loaded`
\* the session's copy, `assigned` the attributes assigned since.
IsDirty(loaded, assigned, f) ==
  /\ f \in DOMAIN assigned
  /\ f \in MappedColumns
  /\ \/ assigned[f] # loaded[f]
     \/ f \in TimeColumns /\ assigned[f] # NoTime

\* a commit that writes the whole object of the session back
CommitWholeRow(stored, loaded, assigned) ==
  [f \in DOMAIN stored |->
     IF f \in MappedColumns
     THEN (IF f \in DOMAIN assigned THEN assigned[f] ELSE loaded[f])
     ELSE stored[f]]

Commit(stored, loaded, assigned) ==
  [f \in DOMAIN stored |->
     IF IsDirty(loaded, assigned, f) THEN assigned[f] ELSE stored[f]]

\* the session's copy after the assignments (expire_on_commit=False)
Assign(loaded, assigned) ==
  [f \in DOMAIN loaded |-> IF f \in DOMAIN assigned THEN assigned[f] ELSE loaded[f]]

\* ------------------------------------------------------ the child process
\* st: none (not launched) | alive | exited;  code: poll() once exited;
\* written: lines written to the pipe;  nread: lines readline() returned;
\* out: the child still holds the pipe's write end;
\* desc: a descendant the script forked: none | pipe (alive, inherited the
\*       pipe) | detached (alive, own stdout) | dead.
NoProcess ==
  [st |-> "none", code |-> NoCode, written |-> 0, nread |-> 0, out |-> FALSE, desc |-> "none"]
Popen ==
  [st |-> "alive", code |-> NoCode, written |-> 0, nread |-> 0, out |-> TRUE, desc |-> "none"]

DescAlive(p) == p.desc \in {"pipe", "detached"}

\* readline() returns '' only at end of file: nothing buffered and every
\* write end of the pipe closed.
AtEOF(p) == p.nread = p.written /\ (p.st = "exited" \/ ~p.out) /\ p.desc # "pipe"
HasLine(p) == p.nread < p.written

\* answers of the API handlers
NoResponse == [handler |-> "none", id |-> 0, code |-> 0]
Answer(h, s, c) == [handler |-> h, id |-> s, code |-> c]

VARIABLES
  db,                 \* [Scripts -> row]
  queue,              \* run requests in the broker, oldest first
  response,           \* the last answer of the API: handler, id, HTTP status
  now,                \* the clock
  pc,                 \* [Workers -> position of the supervisor]
  cur,                \* [Workers -> script id of the task, 0 when idle]
  script,             \* [Workers -> the session's copy of the row]
  logs,               \* [Workers -> the list `logs`]
  start_time,         \* [Workers -> start_time]
  last_db_update,     \* [Workers -> last_db_update]
  process,            \* [Workers -> the child of this supervisor]
  running_processes,  \* [Workers -> ids in the module's registry]
  cancelled_scripts,  \* [Workers -> ids in the module's set]
  result              \* [Workers -> "status" of the returned dict]

vars == << db, queue, response, now, pc, cur, script, logs, start_time, last_db_update,
           process, running_processes, cancelled_scripts, result >>

taskVars == << pc, cur, script, logs, start_time, last_db_update,
               process, running_processes, cancelled_scripts, result >>

Init ==
  /\ db = [s \in Scripts |-> NewScript]
  /\ queue = << >>
  /\ response = NoResponse
  /\ now = 0
  /\ pc = [w \in Workers |-> "idle"]
  /\ cur = [w \in Workers |-> 0]
  /\ script = [w \in Workers |-> NewScript]
  /\ logs = [w \in Workers |-> << >>]
  /\ start_time = [w \in Workers |-> 0]
  /\ last_db_update = [w \in Workers |-> 0]
  /\ process = [w \in Workers |-> NoProcess]
  /\ running_processes = [w \in Workers |-> {}]
  /\ cancelled_scripts = [w \in Workers |-> {}]
  /\ result = [w \in Workers |-> "none"]


\* ---------------------------------------------------------------- signals
\* process.kill(): SIGKILL to the child alone.
ProcessKill(p) ==
  IF p.st = "alive"
  THEN [p EXCEPT !.st = "exited", !.code = SIGKILLED, !.out = FALSE]
  ELSE p

\* _kill_process without the test `process.poll() is not None`
KillProcessNoPoll(p, graceful, descGraceful) ==
  [p EXCEPT !.st = "exited",
            !.code = IF graceful THEN SIGTERMED ELSE SIGKILLED,
            !.out = FALSE,
            !.desc = IF DescAlive(p) /\ (descGraceful \/ ~graceful)
                     THEN "dead" ELSE @]

\* _kill_process(process).  graceful: the parent ends within the one second
\* wait after SIGTERM; descGraceful: the descendant ends on SIGTERM.  A
\* parent that ends gracefully makes the routine return before any SIGKILL.
KillProcess(p, graceful, descGraceful) ==
  IF p.st # "alive"
  THEN p
  ELSE [p EXCEPT !.st = "exited",
                 !.code = IF graceful THEN SIGTERMED ELSE SIGKILLED,
                 !.out = FALSE,
                 !.desc = IF DescAlive(p) /\ (descGraceful \/ ~graceful)
                          THEN "dead" ELSE @]

\* -------------------------------------------------------------- API layer
RunningCount == Cardinality({t \in Scripts : db[t].status = RUNNING})

\* a rejection rule that looks at the concurrency limit alone
SubmitRejectedAtLimitOnly(s) ==
  RunningCount >= MAX_CONCURRENT_SCRIPTS

\* a rejection rule that looks at the status of the script alone
SubmitRejectedIfRunning(s) ==
  db[s].status = RUNNING

\* execute_script_endpoint answers 400
SubmitRejected(s) ==
  \/ db[s].status = RUNNING
  \/ RunningCount >= MAX_CONCURRENT_SCRIPTS

\* POST /{script_id}/execute.  The handler enqueues the task and then
\* assigns script.celery_task_id, which is no mapped column: its commit
\* writes nothing.
ExecuteEndpoint(s) ==
  /\ IF db[s] = NoRecord
     THEN /\ response' = Answer("execute", s, 404)
          /\ UNCHANGED << queue, db >>
     ELSE IF SubmitRejected(s)
     THEN /\ response' = Answer("execute", s, 400)
          /\ UNCHANGED << queue, db >>
     ELSE /\ Len(queue) < MaxQueue
          /\ queue' = Append(queue, s)
          /\ db' = [db EXCEPT ![s] = Commit(@, @, [celery_task_id |-> TaskId])]
          /\ response' = Answer("execute", s, 200)
  /\ UNCHANGED now
  /\ UNCHANGED taskVars

\* a cancel that does not look at the status
CancelEndpointAnyStatus(s) ==
  /\ db' = [db EXCEPT ![s] =
            Commit(@, @, [status |-> CANCELLED, completed_at |-> now])]
  /\ response' = Answer("cancel", s, 200)
  /\ UNCHANGED << queue, now >>
  /\ UNCHANGED taskVars

\* DELETE /{script_id}
DeleteEndpoint(s) ==
  /\ IF db[s] = NoRecord
     THEN /\ response' = Answer("delete", s, 404)
          /\ UNCHANGED db
     ELSE IF db[s].status = RUNNING
     THEN /\ response' = Answer("delete", s, 400)
          /\ UNCHANGED db
     ELSE /\ db' = [db EXCEPT ![s] = NoRecord]
          /\ response' = Answer("delete", s, 200)
  /\ UNCHANGED << queue, now >>
  /\ UNCHANGED taskVars

\* POST /{script_id}/cancel
CancelEndpoint(s) ==
  /\ IF db[s].status # RUNNING
     THEN /\ response' = Answer("cancel", s, 400)
          /\ UNCHANGED db
     ELSE /\ db' = [db EXCEPT ![s] =
                   Commit(@, @, [status |-> CANCELLED, completed_at |-> now])]
          /\ response' = Answer("cancel", s, 200)
  /\ UNCHANGED << queue, now >>
  /\ UNCHANGED taskVars

\* ------------------------------------------------------- worker-side tasks
\* the Celery task cancel_script, run by a free pool process
CancelScriptTask(w, s) ==
  /\ pc[w] = "idle"
  /\ IF db[s].status = RUNNING
     THEN /\ \E g \in BOOLEAN, dg \in BOOLEAN :
               process' = [process EXCEPT ![w] =
                  IF s \in running_processes[w] THEN KillProcess(@, g, dg) ELSE @]
          /\ db' = [db EXCEPT ![s] =
                  Commit(@, @, [status |-> CANCELLED, completed_at |-> now,
                                execution_logs |-> Append(@.execution_logs, TaskCancelMarker)])]
     ELSE UNCHANGED << db, process >>
  /\ UNCHANGED << queue, response, now, pc, cur, script, logs, start_time, last_db_update,
                  running_processes, cancelled_scripts, result >>

\* a sweep that sets the status and the message and no completed_at
MarkStaleStatusOnly(row) ==
  [row EXCEPT !.status = FAILED,
              !.error_message = RestartMsg]

\* the row cleanup_stale_scripts leaves for a script it found RUNNING
MarkStale(row) ==
  [row EXCEPT !.status = FAILED,
              !.error_message = RestartMsg,
              !.completed_at = now,
              !.celery_task_id = NoTask,
              !.execution_logs = Append(@, RestartMarker)]

\* a hook that sweeps the rows and leaves the queue as it is
CleanupStaleScriptsNoPurge ==
  /\ db' = [s \in Scripts |-> IF db[s].status = RUNNING THEN MarkStale(db[s]) ELSE db[s]]
  /\ UNCHANGED << queue, response, now >>
  /\ UNCHANGED taskVars

\* worker_ready hook of a worker process that starts: the sweep over the
\* RUNNING rows, then celery_app.control.purge()
CleanupStaleScripts ==
  /\ db' = [s \in Scripts |-> IF db[s].status = RUNNING THEN MarkStale(db[s]) ELSE db[s]]
  /\ queue' = << >>
  /\ UNCHANGED << response, now >>
  /\ UNCHANGED taskVars

\* ------------------------------------------------------------ the clock
Tick ==
  /\ now < MaxTime
  /\ now' = now + 1
  /\ UNCHANGED << db, queue, response >>
  /\ UNCHANGED taskVars


\* ------------------------------------------------- execute_script (worker)
\* assignments to the session's object followed by db.commit()
Save(w, assigned) ==
  /\ db' = [db EXCEPT ![cur[w]] = Commit(@, script[w], assigned)]
  /\ script' = [script EXCEPT ![w] = Assign(@, assigned)]

\* a return that leaves the registries as they are
ReturnKeepsRegistry(w, status) ==
  /\ pc' = [pc EXCEPT ![w] = "done"]
  /\ result' = [result EXCEPT ![w] = status]
  /\ UNCHANGED << running_processes, cancelled_scripts >>

\* `return {...}` through the finally block
Return(w, status) ==
  /\ pc' = [pc EXCEPT ![w] = "done"]
  /\ result' = [result EXCEPT ![w] = status]
  /\ running_processes' = [running_processes EXCEPT ![w] = @ \ {cur[w]}]
  /\ cancelled_scripts' = [cancelled_scripts EXCEPT ![w] = @ \ {cur[w]}]

\* an entry that sets the status and leaves started_at alone
ResetFieldsNoStart ==
  [ status |-> RUNNING, completed_at |-> NoTime,
    execution_logs |-> << >>, error_message |-> NoMsg, exit_code |-> NoCode ]

\* a reset that leaves the logs and the error message of the row alone
ResetFieldsKeepLogs ==
  [ status |-> RUNNING, started_at |-> now, completed_at |-> NoTime,
    exit_code |-> NoCode ]

\* the reset of the row at entry
ResetFields ==
  [ status |-> RUNNING, started_at |-> now, completed_at |-> NoTime,
    execution_logs |-> << >>, error_message |-> NoMsg, exit_code |-> NoCode ]

\* an entry that resets the session's object and commits nothing
EntryNoCommit(w) ==
  /\ pc[w] = "idle"
  /\ queue # << >>
  /\ db[Head(queue)] # NoRecord
  /\ cur' = [cur EXCEPT ![w] = Head(queue)]
  /\ script' = [script EXCEPT ![w] = Assign(db[Head(queue)], ResetFields)]
  /\ queue' = Tail(queue)
  /\ pc' = [pc EXCEPT ![w] = "preflight"]
  /\ UNCHANGED << db, response, now, logs, start_time, last_db_update, process,
                  running_processes, cancelled_scripts, result >>

\* a pool process takes the oldest run request, loads the row, resets it and
\* commits
Entry(w) ==
  /\ pc[w] = "idle"
  /\ queue # << >>
  /\ db[Head(queue)] # NoRecord
  /\ LET s == Head(queue) IN
       /\ cur' = [cur EXCEPT ![w] = s]
       /\ db' = [db EXCEPT ![s] = Commit(@, @, ResetFields)]
       /\ script' = [script EXCEPT ![w] = Assign(db[s], ResetFields)]
  /\ queue' = Tail(queue)
  /\ pc' = [pc EXCEPT ![w] = "preflight"]
  /\ UNCHANGED << response, now, logs, start_time, last_db_update, process,
                  running_processes, cancelled_scripts, result >>

\* a task that makes the row it does not find
EntryCreatesRow(w) ==
  /\ pc[w] = "idle"
  /\ queue # << >>
  /\ db[Head(queue)] = NoRecord
  /\ cur' = [cur EXCEPT ![w] = Head(queue)]
  /\ db' = [db EXCEPT ![Head(queue)] = Assign(NewScript, ResetFields)]
  /\ script' = [script EXCEPT ![w] = Assign(NewScript, ResetFields)]
  /\ queue' = Tail(queue)
  /\ pc' = [pc EXCEPT ![w] = "preflight"]
  /\ UNCHANGED << response, now, logs, start_time, last_db_update, process,
                  running_processes, cancelled_scripts, result >>

\* a pool process takes a run request whose row is gone: `raise
\* Exception("Script ... not found")`, the outer handler with neither
\* process nor script, `return {"status": "failed", "error": ...}`
EntryNotFound(w) ==
  /\ pc[w] = "idle"
  /\ queue # << >>
  /\ db[Head(queue)] = NoRecord
  /\ cur' = [cur EXCEPT ![w] = Head(queue)]
  /\ queue' = Tail(queue)
  /\ Return(w, "failed")
  /\ UNCHANGED << db, response, now, script, logs, start_time, last_db_update, process >>

\* the row the outer `except Exception` handler writes
FailedFields(w, msg) ==
  [ status |-> FAILED, error_message |-> msg, completed_at |-> now,
    execution_logs |-> logs[w], celery_task_id |-> NoTask ]

\* the outer handler: kill the child if it runs, mark FAILED, return
ExceptionExit(w, msg, graceful, descGraceful) ==
  /\ process' = [process EXCEPT ![w] = KillProcess(@, graceful, descGraceful)]
  /\ Save(w, FailedFields(w, msg))
  /\ Return(w, "failed")

\* `if not all_installed`: the error is saved and the task returns
PrecheckFailure(w, missing_pkgs) ==
  LET error_msg == create_error_message(missing_pkgs) IN
    /\ Save(w, [ status |-> FAILED, error_message |-> error_msg,
                 execution_logs |-> << PkgFailedLog, error_msg >>,
                 completed_at |-> now, celery_task_id |-> NoTask ])
    /\ Return(w, "failed")
    /\ UNCHANGED << process, start_time, last_db_update >>

\* what decides the steps between the entry commit and the loop
PreflightOutcomes == {"file_missing", "missing_packages", "spawn_error", "launched"}

\* file check, package validation, Popen
Preflight(w) ==
  /\ pc[w] = "preflight"
  /\ \E o \in PreflightOutcomes :
       CASE o = "file_missing" ->
              /\ ExceptionExit(w, FileMissingMsg, TRUE, TRUE)
              /\ UNCHANGED << start_time, last_db_update >>
         [] o = "spawn_error" ->
              /\ ExceptionExit(w, SpawnErrorMsg, TRUE, TRUE)
              /\ UNCHANGED << start_time, last_db_update >>
         [] o = "missing_packages" ->
              \E missing_pkgs \in MissingLists : PrecheckFailure(w, missing_pkgs)
         [] o = "launched" ->
              /\ process' = [process EXCEPT ![w] = Popen]
              /\ running_processes' = [running_processes EXCEPT ![w] = @ \cup {cur[w]}]
              /\ start_time' = [start_time EXCEPT ![w] = now]
              /\ last_db_update' = [last_db_update EXCEPT ![w] = now]
              /\ pc' = [pc EXCEPT ![w] = "loop"]
              /\ UNCHANGED << db, script, cancelled_scripts, result >>
  /\ UNCHANGED << queue, response, now, cur, logs >>

TimedOut(w) == now - start_time[w] > MAX_EXECUTION_TIME

\* an iteration that tests the timeout before the cancellation
LoopTopTimeoutFirst(w) ==
  /\ pc[w] = "loop"
  /\ script' = [script EXCEPT ![w] = db[cur[w]]]
  /\ pc' = [pc EXCEPT ![w] =
        IF TimedOut(w) THEN "timeout_exit"
        ELSE IF db[cur[w]].status = CANCELLED THEN "cancel_exit"
        ELSE "read"]
  /\ UNCHANGED << db, queue, response, now, cur, logs, start_time, last_db_update, process,
                  running_processes, cancelled_scripts, result >>

\* top of `while True`: db.refresh(script), the cancellation check, the
\* timeout check
LoopTop(w) ==
  /\ pc[w] = "loop"
  /\ script' = [script EXCEPT ![w] = db[cur[w]]]
  /\ pc' = [pc EXCEPT ![w] =
        IF db[cur[w]].status = CANCELLED THEN "cancel_exit"
        ELSE IF TimedOut(w) THEN "timeout_exit"
        ELSE "read"]
  /\ UNCHANGED << db, queue, response, now, cur, logs, start_time, last_db_update, process,
                  running_processes, cancelled_scripts, result >>

\* a cancellation branch that persists the marker alone
CancelledLogsMarkerOnly(w) == << CancelMarker >>

\* what the cancellation branches persist
CancelledLogs(w) == Append(logs[w], CancelMarker)

\* cancellation seen in the refreshed row: process.kill(), save, return
CancelExit(w) ==
  /\ pc[w] = "cancel_exit"
  /\ process' = [process EXCEPT ![w] = ProcessKill(@)]
  /\ Save(w, [ execution_logs |-> CancelledLogs(w), completed_at |-> now,
               celery_task_id |-> NoTask ])
  /\ Return(w, "cancelled")
  /\ UNCHANGED << queue, response, now, cur, logs, start_time, last_db_update >>

\* timeout: _kill_process, TimeoutError, its handler
TimeoutExit(w) ==
  /\ pc[w] = "timeout_exit"
  /\ \E g \in BOOLEAN, dg \in BOOLEAN :
       process' = [process EXCEPT ![w] = KillProcess(@, g, dg)]
  /\ Save(w, FailedFields(w, TimeoutMsg))
  /\ Return(w, "failed")
  /\ UNCHANGED << queue, response, now, cur, logs, start_time, last_db_update >>


\* script.execution_logs = "\n".join(logs) after a line was appended
LineUpdate(newlogs) == [ execution_logs |-> newlogs ]

\* output = process.stdout.readline() and what follows it.  The pipe is a
\* blocking one: the call returns a line when one is buffered, '' at end of
\* file, and otherwise does not return.
Read(w) ==
  /\ pc[w] = "read"
  /\ LET p == process[w]
         newlogs == Append(logs[w], Line(p.nread + 1))
     IN
       IF HasLine(p)
       THEN /\ process' = [process EXCEPT ![w].nread = @ + 1]
            /\ logs' = [logs EXCEPT ![w] = newlogs]
            /\ IF cur[w] \in cancelled_scripts[w]
               THEN \* "Cancellation detected while processing output"
                    /\ Save(w, [ execution_logs |-> Append(newlogs, CancelMarker),
                                 status |-> CANCELLED, completed_at |-> now,
                                 celery_task_id |-> NoTask ])
                    /\ Return(w, "cancelled")
                    /\ UNCHANGED last_db_update
               ELSE \* "Save EVERY line to database immediately"
                    /\ Save(w, LineUpdate(newlogs))
                    /\ last_db_update' = [last_db_update EXCEPT ![w] = now]
                    /\ pc' = [pc EXCEPT ![w] = "heartbeat"]
                    /\ UNCHANGED << running_processes, cancelled_scripts, result >>
       ELSE /\ AtEOF(p)
            /\ pc' = [pc EXCEPT ![w] =
                  IF p.st = "exited" \/ cur[w] \in cancelled_scripts[w]
                  THEN "finish"      \* break
                  ELSE "loop"]       \* time.sleep(0.01); continue
            /\ UNCHANGED << db, script, logs, process, last_db_update,
                            running_processes, cancelled_scripts, result >>
  /\ UNCHANGED << queue, response, now, cur, start_time >>

IsStatusLine(l) == l = StatusMarker

\* the heartbeat block, reached after a line was read and saved
Heartbeat(w) ==
  /\ pc[w] = "heartbeat"
  /\ IF now - last_db_update[w] >= heartbeat_interval
     THEN /\ IF logs[w] = << >> \/ now - start_time[w] > StatusAfter
             THEN IF logs[w] = << >> \/ ~IsStatusLine(logs[w][Len(logs[w])])
                  THEN /\ logs' = [logs EXCEPT ![w] = Append(@, StatusMarker)]
                       /\ Save(w, [ execution_logs |-> Append(logs[w], StatusMarker) ])
                  ELSE UNCHANGED << logs, db, script >>
             ELSE /\ Save(w, [ execution_logs |->
                                 IF logs[w] = << >> THEN << WaitingMarker >> ELSE logs[w] ])
                  /\ UNCHANGED logs
          /\ last_db_update' = [last_db_update EXCEPT ![w] = now]
     ELSE UNCHANGED << logs, db, script, last_db_update >>
  /\ pc' = [pc EXCEPT ![w] = "loop"]
  /\ UNCHANGED << queue, response, now, cur, start_time, process,
                  running_processes, cancelled_scripts, result >>

\* a test that takes every exit code for success
IsSuccessAnyCode(return_code) == return_code # NoCode

\* `if return_code == 0`
IsSuccess(return_code) == return_code = 0

\* after the loop: return code, the check of the session's status, the
\* terminal write
AfterLoop(w) ==
  /\ LET return_code == process[w].code IN
       IF script[w].status = CANCELLED
       THEN /\ Return(w, "cancelled")
            /\ UNCHANGED << db, script >>
       ELSE IF IsSuccess(return_code)
       THEN /\ Save(w, [ execution_logs |-> logs[w], status |-> COMPLETED,
                         completed_at |-> now, celery_task_id |-> NoTask ])
            /\ Return(w, COMPLETED)
       ELSE /\ Save(w, [ execution_logs |-> logs[w], status |-> FAILED,
                         error_message |-> ExitMsg(return_code),
                         completed_at |-> now, celery_task_id |-> NoTask ])
            /\ Return(w, FAILED)
  /\ UNCHANGED << queue, response, now, cur, logs, start_time, last_db_update, process >>

\* the loop was left through `break` at end of output
Finish(w) ==
  /\ pc[w] = "finish"
  /\ AfterLoop(w)

\* readline() raises IOError/OSError: the except clause breaks out of the
\* loop and the code after the loop runs
ReadError(w) ==
  /\ pc[w] = "read"
  /\ AfterLoop(w)

\* readline() raises another exception, as UnicodeDecodeError does for a
\* line whose bytes are not valid in the pipe's encoding: the bytes are
\* consumed, the except clause logs a warning and `continue`s
ReadUndecodable(w) ==
  /\ pc[w] = "read"
  /\ HasLine(process[w])
  /\ process' = [process EXCEPT ![w].nread = @ + 1]
  /\ pc' = [pc EXCEPT ![w] = "loop"]
  /\ UNCHANGED << db, queue, response, now, cur, script, logs, start_time, last_db_update,
                  running_processes, cancelled_scripts, result >>

\* the task has returned; the pool process is free for the next request
TaskReturn(w) ==
  /\ pc[w] = "done"
  /\ pc' = [pc EXCEPT ![w] = "idle"]
  /\ cur' = [cur EXCEPT ![w] = 0]
  /\ script' = [script EXCEPT ![w] = NewScript]
  /\ logs' = [logs EXCEPT ![w] = << >>]
  /\ start_time' = [start_time EXCEPT ![w] = 0]
  /\ last_db_update' = [last_db_update EXCEPT ![w] = 0]
  /\ process' = [process EXCEPT ![w] = NoProcess]
  /\ result' = [result EXCEPT ![w] = "none"]
  /\ UNCHANGED << db, queue, response, now, running_processes, cancelled_scripts >>

\* ------------------------------------------------- the child (environment)
Supervised(w) == pc[w] \notin {"idle", "done"}

ChildStep(w, p) ==
  /\ Supervised(w)
  /\ process' = [process EXCEPT ![w] = p]
  /\ UNCHANGED << db, queue, response, now, pc, cur, script, logs, start_time, last_db_update,
                  running_processes, cancelled_scripts, result >>

ChildWrite(w) ==
  /\ process[w].st = "alive" /\ process[w].out
  /\ process[w].written < MaxLines
  /\ ChildStep(w, [process[w] EXCEPT !.written = @ + 1])

ChildExit(w) ==
  /\ process[w].st = "alive"
  /\ \E c \in ExitCodes :
       ChildStep(w, [process[w] EXCEPT !.st = "exited", !.code = c, !.out = FALSE])

ChildCloseStdout(w) ==
  /\ process[w].st = "alive" /\ process[w].out
  /\ ChildStep(w, [process[w] EXCEPT !.out = FALSE])

ChildFork(w) ==
  /\ process[w].st = "alive" /\ process[w].desc = "none"
  /\ \E d \in {"pipe", "detached"} :
       ChildStep(w, [process[w] EXCEPT !.desc = d])

DescendantExit(w) ==
  /\ DescAlive(process[w])
  /\ ChildStep(w, [process[w] EXCEPT !.desc = "dead"])

\* the pool process dies under the task (SIGKILL, out of memory, the hard
\* task_time_limit): nothing is written, the request is not redelivered
\* (task_acks_late=False), the child is orphaned
WorkerLost(w) ==
  /\ Supervised(w)
  /\ pc' = [pc EXCEPT ![w] = "idle"]
  /\ cur' = [cur EXCEPT ![w] = 0]
  /\ script' = [script EXCEPT ![w] = NewScript]
  /\ logs' = [logs EXCEPT ![w] = << >>]
  /\ start_time' = [start_time EXCEPT ![w] = 0]
  /\ last_db_update' = [last_db_update EXCEPT ![w] = 0]
  /\ process' = [process EXCEPT ![w] = NoProcess]
  /\ running_processes' = [running_processes EXCEPT ![w] = {}]
  /\ cancelled_scripts' = [cancelled_scripts EXCEPT ![w] = {}]
  /\ UNCHANGED << db, queue, response, now, result >>

\* ------------------------------------------ the kill routine on its own
\* verify_kill_works.py: a process is started and _kill_process is called on
\* its handle; pc counts the calls made so far (verify, verify_1, verify_2)
InitKill ==
  /\ db = [s \in Scripts |-> NewScript]
  /\ queue = << >>
  /\ response = NoResponse
  /\ now = 0
  /\ pc = [w \in Workers |-> "verify"]
  /\ cur = [w \in Workers |-> 0]
  /\ script = [w \in Workers |-> NewScript]
  /\ logs = [w \in Workers |-> << >>]
  /\ start_time = [w \in Workers |-> 0]
  /\ last_db_update = [w \in Workers |-> 0]
  /\ process = [w \in Workers |-> Popen]
  /\ running_processes = [w \in Workers |-> {}]
  /\ cancelled_scripts = [w \in Workers |-> {}]
  /\ result = [w \in Workers |-> "none"]

\* one call _kill_process(process)
KillCall(w) ==
  /\ pc[w] \in {"verify", "verify_1"}
  /\ \E g \in BOOLEAN, dg \in BOOLEAN :
       process' = [process EXCEPT ![w] = KillProcess(@, g, dg)]
  /\ pc' = [pc EXCEPT ![w] = IF @ = "verify" THEN "verify_1" ELSE "verify_2"]
  /\ UNCHANGED << db, queue, response, now, cur, script, logs, start_time, last_db_update,
                  running_processes, cancelled_scripts, result >>

\* _kill_process step by step.  In this harness logs[w] is the record of
\* what the routine has done so far, in order.
ChildrenNone  == "children = []"
ChildrenOne   == "children = [descendant]"
TermChildMsg  == "Terminating child process"
TermParentMsg == "Terminating parent process"
GracefulMsg   == "terminated gracefully"
NotGracefulMsg == "did not terminate gracefully, force killing..."
KillChildMsg  == "Force killing child process"
KillParentMsg == "Force killing parent process"

Did(w, e) == \E i \in DOMAIN logs[w] : logs[w][i] = e

KillStep(w, from, to, p, events) ==
  /\ pc[w] = from
  /\ pc' = [pc EXCEPT ![w] = to]
  /\ process' = [process EXCEPT ![w] = p]
  /\ logs' = [logs EXCEPT ![w] = @ \o events]
  /\ UNCHANGED << db, queue, response, now, cur, script, start_time, last_db_update,
                  running_processes, cancelled_scripts, result >>

\* process.poll(), psutil.Process(pid), parent.children(recursive=True)
KillEnumerate(w) ==
  IF process[w].st # "alive"
  THEN KillStep(w, "verify", "verify_1", process[w], << >>)
  ELSE KillStep(w, "verify", "term_children", process[w],
                << IF DescAlive(process[w]) THEN ChildrenOne ELSE ChildrenNone >>)

\* a routine that sends the children no graceful signal
TermChildrenSkipped(w) ==
  KillStep(w, "term_children", "term_parent", process[w], << >>)

\* for child in children: child.terminate()
TermChildren(w) ==
  IF Did(w, ChildrenOne)
  THEN \E descGraceful \in BOOLEAN :
         KillStep(w, "term_children", "term_parent",
                  [process[w] EXCEPT !.desc = IF DescAlive(process[w]) /\ descGraceful
                                               THEN "dead" ELSE @],
                  << TermChildMsg >>)
  ELSE KillStep(w, "term_children", "term_parent", process[w], << >>)

\* parent.terminate()
TermParent(w) ==
  KillStep(w, "term_parent", "wait", process[w], << TermParentMsg >>)

\* parent.wait(timeout=1): the parent has ended, or ends on the signal, and the
\* routine returns; or the wait times out
KillWait(w) ==
  \E graceful \in BOOLEAN :
    IF process[w].st # "alive"
    THEN KillStep(w, "wait", "verify_1", process[w], << GracefulMsg >>)
    ELSE IF graceful
    THEN KillStep(w, "wait", "verify_1",
                  [process[w] EXCEPT !.st = "exited", !.code = SIGTERMED, !.out = FALSE],
                  << GracefulMsg >>)
    ELSE KillStep(w, "wait", "force_children", process[w], << NotGracefulMsg >>)

\* for child in children: if child.is_running(): child.kill()
ForceChildren(w) ==
  IF Did(w, ChildrenOne) /\ DescAlive(process[w])
  THEN KillStep(w, "force_children", "force_parent",
                [process[w] EXCEPT !.desc = "dead"], << KillChildMsg >>)
  ELSE KillStep(w, "force_children", "force_parent", process[w], << >>)

\* if parent.is_running(): parent.kill(); process.wait(timeout=2)
ForceParent(w) ==
  IF process[w].st = "alive"
  THEN KillStep(w, "force_parent", "verify_1", ProcessKill(process[w]), << KillParentMsg >>)
  ELSE KillStep(w, "force_parent", "verify_1", process[w], << >>)

KillSteps(w) ==
  \/ KillEnumerate(w) \/ TermChildren(w) \/ TermParent(w) \/ KillWait(w)
  \/ ForceChildren(w) \/ ForceParent(w)

\* ------------------------------------------------- the package validator
\* names a script may import and names `pip list --format=freeze` may print
ImportNames == {"os", "cv2", "PIL", "yaml", "numpy", "flask"}
PipNames    == {"opencv-python", "Pillow", "PyYAML", "numpy", "Flask"}

\* of STDLIB_MODULES, the names that occur here
STDLIB_MODULES == {"os", "sys", "json", "time"}

\* IMPORT_TO_PACKAGE.get(import_name, import_name), for the names that occur
IMPORT_TO_PACKAGE(import_name) ==
  CASE import_name = "cv2"  -> "opencv-python"
    [] import_name = "PIL"  -> "Pillow"
    [] import_name = "yaml" -> "PyYAML"
    [] OTHER -> import_name

\* str.lower()
lower(name) ==
  CASE name = "Pillow" -> "pillow"
    [] name = "PyYAML" -> "pyyaml"
    [] name = "Flask"  -> "flask"
    [] name = "PIL"    -> "pil"
    [] OTHER -> name

\* _get_installed_packages: the names of the pip lines, lowercased
get_installed_packages(pip_list) == {lower(pkg_name) : pkg_name \in pip_list}

\* the order in which a set is iterated
RECURSIVE Iterate(_)
Iterate(S) ==
  IF S = {} THEN << >>
  ELSE LET x == CHOOSE y \in S : TRUE IN << x >> \o Iterate(S \ {x})

RECURSIVE CheckAll(_, _, _)
CheckAll(todo, installed_packages, wantMissing) ==
  IF todo = << >> THEN << >>
  ELSE LET package_name == IMPORT_TO_PACKAGE(Head(todo))
           isMissing == lower(package_name) \notin installed_packages
       IN (IF isMissing = wantMissing THEN << package_name >> ELSE << >>)
            \o CheckAll(Tail(todo), installed_packages, wantMissing)

\* a validation that compares the package name as it is written
validate_packages_as_written(imports, installed_packages) ==
  LET external_imports == {imp \in imports : imp \notin STDLIB_MODULES}
      missing == SelectSeq(Iterate({IMPORT_TO_PACKAGE(i) : i \in external_imports}),
                           LAMBDA n : n \notin installed_packages)
  IN [ all_installed |-> Len(missing) = 0, missing |-> missing, available |-> << >> ]

\* validate_packages, given the imports extract_imports found
validate_packages(imports, installed_packages) ==
  LET external_imports == {imp \in imports : imp \notin STDLIB_MODULES}
      missing   == CheckAll(Iterate(external_imports), installed_packages, TRUE)
      available == CheckAll(Iterate(external_imports), installed_packages, FALSE)
  IN [ all_installed |-> Len(missing) = 0, missing |-> missing, available |-> available ]

\* The validator on its own.  In this harness script[w] is what the validator
\* works on: the imports of the script file, the lines of pip, and
\* self.installed_packages; result[w] is what validate_packages returned.
NotListed == {"not listed"}

InitValidate ==
  /\ db = [s \in Scripts |-> NewScript]
  /\ queue = << >>
  /\ response = NoResponse
  /\ now = 0
  /\ pc = [w \in Workers |-> IF w = W1 THEN "validator_init" ELSE "idle"]
  /\ cur = [w \in Workers |-> 0]
  /\ \E imports \in SUBSET ImportNames, pip_list \in SUBSET PipNames :
       script = [w \in Workers |->
                   IF w = W1
                   THEN [ imports |-> imports, pip_list |-> pip_list,
                          installed_packages |-> NotListed ]
                   ELSE NewScript]
  /\ logs = [w \in Workers |-> << >>]
  /\ start_time = [w \in Workers |-> 0]
  /\ last_db_update = [w \in Workers |-> 0]
  /\ process = [w \in Workers |-> NoProcess]
  /\ running_processes = [w \in Workers |-> {}]
  /\ cancelled_scripts = [w \in Workers |-> {}]
  /\ result = [w \in Workers |-> "none"]

\* PackageValidator.__init__
ValidatorInit(w) ==
  /\ pc[w] = "validator_init"
  /\ script' = [script EXCEPT ![w].installed_packages = get_installed_packages(script[w].pip_list)]
  /\ pc' = [pc EXCEPT ![w] = "validate"]
  /\ UNCHANGED << db, queue, response, now, cur, logs, start_time, last_db_update, process,
                  running_processes, cancelled_scripts, result >>

\* one call validate_packages(script_path)
Validate(w) ==
  /\ pc[w] = "validate"
  /\ result' = [result EXCEPT ![w] =
                  validate_packages(script[w].imports, script[w].installed_packages)]
  /\ pc' = [pc EXCEPT ![w] = "validated"]
  /\ UNCHANGED << db, queue, response, now, cur, script, logs, start_time, last_db_update,
                  process, running_processes, cancelled_scripts >>

NextValidate == ValidatorInit(W1) \/ Validate(W1)

SpecValidate == InitValidate /\ [][NextValidate]_vars

\* ---------------------------------------------------------- specifications
Supervisor(w) ==
  \/ Entry(w) \/ Preflight(w) \/ LoopTop(w) \/ CancelExit(w) \/ TimeoutExit(w)
  \/ Read(w) \/ Heartbeat(w) \/ Finish(w) \/ TaskReturn(w)

\* the supervisor where the clock stands still: no run times out
SupervisorUntimed(w) ==
  \/ Entry(w) \/ Preflight(w) \/ LoopTop(w) \/ CancelExit(w)
  \/ Read(w) \/ Heartbeat(w) \/ Finish(w) \/ TaskReturn(w)

\* the supervisor of scripts that print nothing, the clock standing still
SupervisorSilent(w) ==
  \/ Entry(w) \/ Preflight(w) \/ LoopTop(w) \/ CancelExit(w)
  \/ Read(w) \/ Finish(w) \/ TaskReturn(w)

Child(w) ==
  \/ ChildWrite(w) \/ ChildExit(w) \/ ChildCloseStdout(w)

Descendants(w) ==
  \/ ChildFork(w) \/ DescendantExit(w)

\* Script 1, submitted and cancelled through the API, run by one pool
\* process.
Next ==
  \/ ExecuteEndpoint(1)
  \/ CancelEndpoint(1)
  \/ Tick
  \/ Supervisor(W1)
  \/ Child(W1)

Spec == Init /\ [][Next]_vars

\* The same, scheduled fairly: a supervisor that can take a step takes it,
\* and time passes.  The API and the child are under no obligation.
Fairness == WF_vars(Supervisor(W1)) /\ WF_vars(Tick)

SpecLive == Spec /\ Fairness

\* The same with scripts that fork.
NextTree == Next \/ Descendants(W1)

SpecTree == Init /\ [][NextTree]_vars

\* Two pool processes and a burst of requests for script 1.
NextDuo ==
  \/ ExecuteEndpoint(1)
  \/ CancelEndpoint(1)
  \/ \E w \in Workers : SupervisorSilent(w)
  \/ \E w \in Workers : ChildExit(w)

SpecDuo == Init /\ [][NextDuo]_vars

\* the scripts submitted where workers start and sweep
SweptScripts == {1, 2}

\* Two scripts, one pool process that can be lost, the cancel_script task
\* on a free pool process, and worker processes that start.
NextOps ==
  \/ \E s \in SweptScripts : ExecuteEndpoint(s)
  \/ \E s \in SweptScripts : CancelEndpoint(s)
  \/ \E s \in SweptScripts : CancelScriptTask(W2, s)
  \/ CleanupStaleScripts
  \/ WorkerLost(W1)
  \/ SupervisorUntimed(W1)
  \/ Child(W1)

SpecOps == Init /\ [][NextOps]_vars

\* Two scripts, silent children, one pool process that can be lost, and
\* worker processes that start.
NextSweep ==
  \/ \E s \in SweptScripts : ExecuteEndpoint(s)
  \/ \E s \in SweptScripts : CancelEndpoint(s)
  \/ CleanupStaleScripts
  \/ WorkerLost(W1)
  \/ SupervisorSilent(W1)
  \/ ChildExit(W1)

SpecSweep == Init /\ [][NextSweep]_vars

\* processes and their descendants, and calls of the kill routine
NextKill ==
  \/ \E w \in Workers : Child(w)
  \/ \E w \in Workers : Descendants(w)
  \/ \E w \in Workers : KillCall(w)

SpecKill == InitKill /\ [][NextKill]_vars

\* a process, its descendant, and one call of the kill routine in steps
NextTerminate ==
  \/ Child(W1)
  \/ Descendants(W1)
  \/ KillSteps(W1)

SpecTerminate == InitKill /\ [][NextTerminate]_vars

\* the supervisor of runs that are neither cancelled nor timed out
SupervisorBrief(w) ==
  \/ Entry(w) \/ Preflight(w) \/ LoopTop(w) \/ Read(w) \/ Finish(w) \/ TaskReturn(w)

\* Every script submitted, one pool process that can be lost under its task.
NextLimit ==
  \/ \E s \in Scripts : ExecuteEndpoint(s)
  \/ SupervisorBrief(W1)
  \/ ChildExit(W1)
  \/ WorkerLost(W1)

SpecLimit == Init /\ [][NextLimit]_vars

\* Script 1 submitted and deleted through the API, one pool process.
NextMissing ==
  \/ ExecuteEndpoint(1)
  \/ DeleteEndpoint(1)
  \/ SupervisorBrief(W1)
  \/ EntryNotFound(W1)
  \/ ChildExit(W1)

SpecMissing == Init /\ [][NextMissing]_vars

\* the core with a failing read of the child's output
NextFault == Next \/ ReadError(W1)
SpecFault == Init /\ [][NextFault]_vars

\* the core with children whose output holds lines the pipe cannot decode
NextDecode == Next \/ ReadUndecodable(W1)
SpecDecode == Init /\ [][NextDecode]_vars

\* Script 1 submitted, one pool process that runs every task to its end with
\* a child that exits, and worker processes that start.
NextDrop ==
  \/ ExecuteEndpoint(1)
  \/ CleanupStaleScripts
  \/ SupervisorBrief(W1)
  \/ ChildExit(W1)

FairnessDrop == SF_vars(SupervisorBrief(W1)) /\ WF_vars(ChildExit(W1))

SpecDrop == Init /\ [][NextDrop]_vars /\ FairnessDrop

\* ------------------------------------------------------------------ claims

\* C1: for every execution record, in every reachable state, completed_at is
\* non-null if and only if status is COMPLETED, FAILED or CANCELLED.
C1_CompletedAtIffTerminal ==
  \A s \in Scripts : (db[s].completed_at # NoTime) <=> (db[s].status \in Terminal)


InLoop(w) == pc[w] \in {"loop", "read", "heartbeat"}

ReturnedCancelled(w) ==
  /\ pc[w] = "done"
  /\ result[w] = "cancelled"
  /\ db[cur[w]].status = CANCELLED
  /\ process[w].st # "alive"

\* C2: cancellation convergence: once CANCELLED is in the record of an
\* execution whose supervisor is inside its main loop, the supervisor
\* eventually returns the cancelled outcome with the record CANCELLED and the
\* child not alive, whatever the child does.
C2_CancellationConverges ==
  \A w \in {W1} :
    (InLoop(w) /\ db[cur[w]].status = CANCELLED) ~> ReturnedCancelled(w)


\* the child is alive, nothing is buffered in the pipe and its write end is
\* open: readline() does not return
Silent(w) == process[w].st = "alive" /\ ~HasLine(process[w]) /\ ~AtEOF(process[w])

\* C2, the case the claim names: a child that stays alive and writes nothing.
C2_SilentChild ==
  \A w \in {W1} :
    (pc[w] = "read" /\ db[cur[w]].status = CANCELLED)
      ~> (ReturnedCancelled(w) \/ ~Silent(w))

\* C3: the supervisor never overwrites a CANCELLED status with COMPLETED or
\* FAILED: no step takes a record from CANCELLED to COMPLETED or FAILED.
C3_CancelledNotOverwritten ==
  [][\A s \in Scripts :
       db[s].status = CANCELLED => db'[s].status \notin {COMPLETED, FAILED}]_vars

\* C4: a submit for an execution whose record is RUNNING is answered 400,
\* enqueues no run request, starts no child and leaves the record alone.
C4_RunningSubmitRejected ==
  [][\A s \in Scripts :
       (db[s].status = RUNNING /\ ExecuteEndpoint(s))
         => /\ response' = Answer("execute", s, 400)
            /\ queue' = queue
            /\ process' = process
            /\ db' = db]_vars

\* a submit was answered 400 while the record is RUNNING and its child runs
C4_Witness ==
  /\ response = Answer("execute", 1, 400)
  /\ db[1].status = RUNNING
  /\ cur[W1] = 1
  /\ process[W1].st = "alive"

\* C5: at no time do two supervisors hold RUNNING ownership of one execution
\* id, and at no time are two child processes alive for it.
C5_OneSupervisorPerId ==
  \A w1 \in Workers, w2 \in Workers :
    (w1 # w2 /\ cur[w1] # 0 /\ cur[w1] = cur[w2])
      => /\ ~(Supervised(w1) /\ Supervised(w2))
         /\ ~(process[w1].st = "alive" /\ process[w2].st = "alive")

\* C6: when execute_script returns, on every exit path, the child it launched
\* and every descendant of that child are no longer alive.
C6_NoProcessLeftAtReturn ==
  \A w \in Workers :
    pc[w] = "done" => (process[w].st # "alive" /\ ~DescAlive(process[w]))

ReturnedTimedOut(w) ==
  /\ pc[w] = "done"
  /\ db[cur[w]].status = FAILED
  /\ db[cur[w]].error_message = TimeoutMsg
  /\ process[w].st # "alive"

\* C7: timeout convergence: once the elapsed time of a run exceeds
\* MAX_EXECUTION_TIME, the run ends FAILED with the timeout message and the
\* child terminated, unless the child exited on its own or the run was
\* cancelled.
C7_TimeoutConverges ==
  \A w \in {W1} :
    (InLoop(w) /\ TimedOut(w))
      ~> \/ ReturnedTimedOut(w)
         \/ process[w].st = "exited"
         \/ cur[w] # 0 /\ db[cur[w]].status = CANCELLED

\* C8: heartbeat liveness: while the child is alive and writes nothing, a
\* heartbeat interval without a flush is followed by a flush.
C8_HeartbeatFlushes ==
  \A w \in {W1} : \A t \in 0..MaxTime :
    (pc[w] = "read" /\ Silent(w) /\ now = t
        /\ now - last_db_update[w] >= heartbeat_interval)
      ~> (pc[w] # "read" \/ ~Silent(w) \/ last_db_update[w] >= t)


\* what the claim requires of the record and the child once a failure has
\* ended the call of worker w with exception text msg
EndsFailed(w, msg) ==
  /\ db'[cur[w]].status = FAILED
  /\ db'[cur[w]].error_message = msg
  /\ db'[cur[w]].completed_at # NoTime
  /\ db'[cur[w]].celery_task_id = NoTask
  /\ process'[w].st # "alive"

\* C9: a failure raised inside execute_script after the record was loaded
\* (file missing, spawn failure, error while reading) ends the call with the
\* record FAILED, error_message the exception text, completed_at set, the
\* handle cleared and the child not alive; a returning supervisor never
\* leaves the record RUNNING.
C9_FailureEndsFailed ==
  [][\A w \in Workers :
       /\ (pc[w] = "preflight" /\ pc'[w] = "done")
            => \E msg \in {FileMissingMsg, SpawnErrorMsg}
                          \cup {create_error_message(m) : m \in MissingLists} :
                 EndsFailed(w, msg)
       /\ ReadError(w) => EndsFailed(w, ReadErrorMsg)
       /\ (pc[w] # "done" /\ pc'[w] = "done") => db'[cur[w]].status # RUNNING]_vars

C12_TerminalIsFinal ==
  [][\A s \in Scripts :
       db[s].status \in Terminal => db'[s].status \in {db[s].status, RUNNING}]_vars

\* C12 for the records the recovery sweep has marked FAILED
C12_SweptStaysFailed ==
  [][\A s \in Scripts :
       (db[s].status = FAILED /\ db[s].error_message = RestartMsg)
         => db'[s].status \in {FAILED, RUNNING}]_vars


\* C13: when the child has exited on its own and the run was neither
\* cancelled nor timed out, the terminal write after the loop leaves
\* COMPLETED if and only if the exit code is 0, and otherwise FAILED with an
\* error_message that gives the nonzero code.
C13_StatusFollowsExitCode ==
  [][\A w \in Workers :
       (/\ Finish(w)
        /\ process[w].st = "exited"
        /\ process[w].code \in ExitCodes
        /\ db[cur[w]].status = RUNNING)
         => /\ db'[cur[w]].status = COMPLETED <=> process[w].code = 0
            /\ process[w].code # 0 =>
                 /\ db'[cur[w]].status = FAILED
                 /\ db'[cur[w]].error_message
                      = "Script exited with code " \o ToString(process[w].code)]_vars

\* a run whose child exited with code 3 has returned
C13_Witness ==
  /\ pc[W1] = "done"
  /\ process[W1].st = "exited"
  /\ process[W1].code = 3
  /\ result[W1] = FAILED
  /\ db[1].status = FAILED
  /\ db[1].error_message = "Script exited with code 3"


\* C14: after a natural child exit the record's exit_code equals the child's
\* exit code; exit_code is null while the record is RUNNING and on CANCELLED
\* runs.
C14_ExitCodeRecorded ==
  \A w \in Workers :
    /\ (/\ pc[w] = "done"
        /\ result[w] \in {COMPLETED, FAILED}
        /\ process[w].st = "exited"
        /\ process[w].code \in ExitCodes
        /\ db[cur[w]].status \in {COMPLETED, FAILED})
         => db[cur[w]].exit_code = process[w].code
    /\ (cur[w] # 0 /\ db[cur[w]].status \in {RUNNING, CANCELLED})
         => db[cur[w]].exit_code = NoCode


\* the text that names the packages of each list, written out
ListedNames(missing) ==
  IF missing = << "foo_bar_baz" >> THEN "foo_bar_baz"
  ELSE "foo_bar_baz, opencv-python"

\* C15: if the package precheck reports missing packages, execute_script ends
\* with the record FAILED, completed_at set, an error_message that lists every
\* missing package name, and no child process launched for the run.
C15_PrecheckFailure ==
  [][\A w \in Workers : \A missing \in MissingLists :
       (pc[w] = "preflight" /\ PrecheckFailure(w, missing))
         => /\ pc'[w] = "done"
            /\ db'[cur[w]].status = FAILED
            /\ db'[cur[w]].completed_at # NoTime
            /\ db'[cur[w]].error_message
                 = MsgHead \o ListedNames(missing) \o MsgMid
                     \o "pip install " \o
                     (IF Len(missing) = 1 THEN "foo_bar_baz"
                                          ELSE "foo_bar_baz opencv-python")
                     \o MsgTail
            /\ process[w] = NoProcess
            /\ process'[w] = NoProcess
            /\ cur[w] \notin running_processes'[w]]_vars

\* the task has returned after a precheck that reported two packages
C15_Witness ==
  /\ pc[W1] = "done"
  /\ result[W1] = "failed"
  /\ process[W1] = NoProcess
  /\ db[1].status = FAILED
  /\ db[1].execution_logs
       = << PkgFailedLog, create_error_message(<< "foo_bar_baz", "opencv-python" >>) >>


\* C16: idempotent teardown: a call of _kill_process on a handle whose
\* process has already exited, the first or a repeated one, sends no signal
\* and leaves the exit code unchanged: the process record and its
\* descendants are as before the call.
C16_KillExitedIsNoOp ==
  [][\A w \in Workers :
       (KillCall(w) /\ process[w].st = "exited") => process'[w] = process[w]]_vars

\* two calls were made on a handle whose process had exited with code 3
\* and left a descendant running
C16_Witness ==
  /\ pc[W1] = "verify_2"
  /\ process[W1].st = "exited"
  /\ process[W1].code = 3
  /\ DescAlive(process[W1])

\* C17: after _kill_process returns for a live process, neither the process
\* nor any descendant it had at the start of the call is alive.
C17_KillLeavesNothingAlive ==
  [][\A w \in Workers :
       (KillCall(w) /\ process[w].st = "alive")
         => (process'[w].st # "alive" /\ ~DescAlive(process'[w]))]_vars


\* what the persisted logs of a RUNNING record can be during the attempt of
\* worker w: lines the attempt has captured so far, or the waiting marker
AttemptLogs(w) ==
  {SubSeq(logs[w], 1, k) : k \in 0..Len(logs[w])} \cup {<< WaitingMarker >>}

C19_CancelWritesRecordOnly ==
  [][\A s \in Scripts :
       CancelEndpoint(s)
         => /\ process' = process
            /\ << pc, cur, script, logs, start_time, last_db_update,
                  running_processes, cancelled_scripts, result >>'
                 = << pc, cur, script, logs, start_time, last_db_update,
                      running_processes, cancelled_scripts, result >>
            /\ queue' = queue
            /\ \A o \in Scripts \ {s} : db'[o] = db[o]
            /\ IF db[s].status = RUNNING
               THEN /\ db'[s] = [db[s] EXCEPT !.status = CANCELLED,
                                              !.completed_at = now]
                    /\ response' = Answer("cancel", s, 200)
               ELSE /\ db'[s] = db[s]
                    /\ response' = Answer("cancel", s, 400)]_vars

\* a cancel of a request that was accepted and not yet picked up by a worker
\* was rejected
C19_Witness ==
  /\ response = Answer("cancel", 1, 400)
  /\ queue = << 1 >>
  /\ db[1].status = UPLOADED
  /\ pc[W1] = "idle"


\* C20: a submit is rejected, with no run request enqueued and the record
\* unchanged, whenever MAX_CONCURRENT_SCRIPTS executions of the user are
\* RUNNING.
C20_LimitRejectsSubmit ==
  [][\A s \in Scripts :
       (/\ ExecuteEndpoint(s)
        /\ Cardinality({o \in Scripts : db[o].status = RUNNING})
             >= MAX_CONCURRENT_SCRIPTS)
         => /\ response' = Answer("execute", s, 400)
            /\ queue' = queue
            /\ db' = db]_vars

\* a submit for a script that is not RUNNING was rejected while two others
\* were RUNNING
C20_Witness ==
  /\ response = Answer("execute", 3, 400)
  /\ db[3].status # RUNNING
  /\ db[1].status = RUNNING
  /\ db[2].status = RUNNING


\* C21: execute_script called for an id that has no record ends with a
\* failed outcome to the caller, launches no child process and creates or
\* modifies no execution record.
C21_NotFoundAborts ==
  [][\A w \in Workers :
       (/\ pc[w] = "idle" /\ pc'[w] # "idle"
        /\ queue # << >> /\ db[Head(queue)] = NoRecord)
         => /\ pc'[w] = "done"
            /\ result'[w] = "failed"
            /\ db' = db
            /\ process' = process
            /\ process'[w] = NoProcess
            /\ running_processes' = running_processes]_vars

\* the task has returned for a request whose script was deleted while the
\* request was queued
C21_Witness ==
  /\ pc[W1] = "done"
  /\ cur[W1] = 1
  /\ result[W1] = "failed"
  /\ db[1] = NoRecord
  /\ process[W1] = NoProcess


\* the texts the supervisor itself puts into the logs
Markers == {CancelMarker, TaskCancelMarker, StatusMarker, WaitingMarker, RestartMarker}

\* the lines of the child among the entries of a log
OutputOf(l) == SelectSeq(l, LAMBDA x : x \notin Markers)

\* the first n lines the child wrote
LinesRead(n) == [k \in 1..n |-> Line(k)]

C23_ErrorMessageIffFailed ==
  \A s \in Scripts :
    db[s] # NoRecord =>
      /\ db[s].status = FAILED => db[s].error_message # NoMsg
      /\ db[s].status \in {UPLOADED, RUNNING, COMPLETED} => db[s].error_message = NoMsg


\* C24: started_at is set exactly in the records whose status has at some
\* time been RUNNING: a RUNNING record always has a started_at, a record gets
\* its first started_at only in a step that makes it RUNNING, a step that
\* makes a record RUNNING sets started_at, and a started_at once set is never
\* cleared.
C24_StartedAtIffEverRunning ==
  [][\A s \in Scripts :
       /\ db[s].status = RUNNING => db[s].started_at # NoTime
       /\ db'[s].status = RUNNING => db'[s].started_at # NoTime
       /\ (db[s].started_at = NoTime /\ db'[s].started_at # NoTime)
            => db'[s].status = RUNNING
       /\ (db[s].started_at = NoTime /\ db'[s].started_at = NoTime /\ db'[s] # NoRecord)
            => db'[s].status = db[s].status
       /\ (db[s].started_at # NoTime /\ db'[s] # NoRecord)
            => db'[s].started_at # NoTime]_vars

\* one record has been RUNNING and was swept, another is RUNNING, both with
\* started_at; neither was written by the API
C24_Witness ==
  /\ db[1].status = FAILED /\ db[1].started_at # NoTime
  /\ db[2].status = RUNNING /\ db[2].started_at # NoTime
  /\ db[3].status = UPLOADED /\ db[3].started_at = NoTime


C26_CancelWinsOverFlush ==
  [][\A w \in Workers :
       (/\ pc[w] = "read"
        /\ db[cur[w]].status = CANCELLED
        /\ logs'[w] # logs[w])
         => /\ pc'[w] = "done"
            /\ result'[w] = "cancelled"
            /\ db'[cur[w]].execution_logs = Append(logs'[w], CancelMarker)
            /\ db'[cur[w]].completed_at # NoTime]_vars


\* C27: the cancellation check comes first in each iteration: when the
\* record reloaded at the start of an iteration is CANCELLED, the iteration
\* goes to the cancellation branch, also when the timeout has elapsed or the
\* child has exited, and that branch ends the run with the cancelled outcome
\* and a CANCELLED record.
C27_CancelCheckedFirst ==
  [][\A w \in Workers :
       /\ (pc[w] = "loop" /\ db[cur[w]].status = CANCELLED /\ pc'[w] # "loop")
            => pc'[w] = "cancel_exit"
       /\ (pc[w] = "cancel_exit" /\ pc'[w] # "cancel_exit")
            => /\ pc'[w] = "done"
               /\ result'[w] = "cancelled"
               /\ db'[cur[w]].status = CANCELLED]_vars

\* an iteration started with the record CANCELLED, the timeout elapsed and
\* the child exited, and the run has ended cancelled
C27_Witness ==
  /\ pc[W1] = "done"
  /\ result[W1] = "cancelled"
  /\ db[1].status = CANCELLED
  /\ db[1].execution_logs # << >>
  /\ db[1].execution_logs[Len(db[1].execution_logs)] = CancelMarker
  /\ db[1].completed_at - start_time[W1] > MAX_EXECUTION_TIME
  /\ process[W1].st = "exited"
  /\ process[W1].code \in ExitCodes


IsPrefix(a, b) == Len(a) <= Len(b) /\ SubSeq(b, 1, Len(a)) = a

\* C28: while one supervisor runs an execution, every write of the logs
\* once the child is launched stores an extension of what was stored before
\* (append-only), and the child's lines in the stored value are a prefix of
\* what the child has written, in order.
C28_FlushesAppendOnly ==
  [][\A w \in Workers :
       (/\ pc[w] \notin {"idle", "preflight", "done"}
        /\ db'[cur[w]].execution_logs # db[cur[w]].execution_logs)
         => /\ IsPrefix(db[cur[w]].execution_logs, db'[cur[w]].execution_logs)
            /\ IsPrefix(OutputOf(db'[cur[w]].execution_logs),
                        LinesRead(process'[w].written))]_vars

\* C29: no output is lost on natural exit: when the loop ends because the
\* child has exited and its output is at end of file, the logs stored with
\* the COMPLETED or FAILED status hold every line the child wrote, in order.
C29_NoOutputLost ==
  [][\A w \in Workers :
       (pc[w] = "finish" /\ pc'[w] = "done" /\ result'[w] \in {COMPLETED, FAILED})
         => OutputOf(db'[cur[w]].execution_logs) = LinesRead(process[w].written)]_vars


\* what the routine had done before its i-th step
Before(w, i, e) == \E j \in 1..(i - 1) : logs[w][j] = e

C31_RunningBeforeLaunch ==
  [][\A w \in Workers :
       /\ (pc[w] = "preflight" /\ pc'[w] = "loop")
            => /\ process'[w].st = "alive"
               /\ script[w].status = RUNNING
               /\ script[w].started_at # NoTime
               /\ db[cur[w]].started_at = script[w].started_at
               /\ db[cur[w]].status \in {RUNNING, CANCELLED}
       /\ (Supervised(w) /\ process[w].st = "alive")
            => /\ db[cur[w]].started_at # NoTime
               /\ db[cur[w]].status # UPLOADED]_vars

\* the child has just been launched and the record is RUNNING
C31_Witness ==
  /\ pc[W1] = "loop"
  /\ process[W1] = Popen
  /\ db[1].status = RUNNING
  /\ db[1].started_at # NoTime
  /\ logs[W1] = << >>


\* the elements of a list
Elements(l) == {l[i] : i \in DOMAIN l}

\* the package an import stands for is among the lines of pip, whatever the
\* case of the letters
NamesInstalled(import_name, pip_list) ==
  \E pkg_name \in pip_list : lower(pkg_name) = lower(IMPORT_TO_PACKAGE(import_name))

\* C32: validate_packages returns all_installed = true exactly when every
\* import outside the standard-library list, mapped through the alias table,
\* names an installed package compared without regard to case; the missing
\* list holds exactly the mapped names that are not installed; and the call
\* changes no state of the validator or the database.
C32_PrecheckResult ==
  [][(pc[W1] = "validate" /\ pc'[W1] = "validated") =>
       LET imports  == script[W1].imports
           pip_list == script[W1].pip_list
           external == {i \in imports : i \notin STDLIB_MODULES}
       IN /\ result'[W1].all_installed
               <=> (\A i \in external : NamesInstalled(i, pip_list))
          /\ Elements(result'[W1].missing)
               = {IMPORT_TO_PACKAGE(i) : i \in {j \in external : ~NamesInstalled(j, pip_list)}}
          /\ script' = script
          /\ db' = db]_vars

\* a script importing os, PIL and cv2 validated where pip lists Pillow: the
\* alias and the case are bridged for PIL, opencv-python is missing
C32_Witness ==
  /\ pc[W1] = "validated"
  /\ script[W1].imports = {"os", "PIL", "cv2"}
  /\ script[W1].pip_list = {"Pillow", "numpy"}
  /\ result[W1].all_installed = FALSE
  /\ result[W1].missing = << "opencv-python" >>


\* C33: a cancellation is not lost through resubmission: while a supervisor
\* that has not yet acted on the cancellation runs a live child for a record
\* that is CANCELLED, no step puts the record back to RUNNING, so the
\* supervisor's next reload of the record still shows the cancellation.
C33_CancelSurvivesResubmit ==
  [][\A w \in Workers :
       (/\ Supervised(w)
        /\ pc[w] # "cancel_exit"
        /\ process[w].st = "alive"
        /\ db[cur[w]].status = CANCELLED)
         => db'[cur[w]].status # RUNNING]_vars


\* C34: the recovery sweep never fails a live run: whenever the sweep takes a
\* record from RUNNING to FAILED, no supervisor is executing that record and
\* no child process of it is alive.
C34_SweepSparesLiveRuns ==
  [][\A s \in Scripts :
       (/\ db[s].status = RUNNING
        /\ db'[s].status = FAILED
        /\ db'[s].error_message = RestartMsg)
         => \A w \in Workers :
              cur[w] = s => (~Supervised(w) /\ process[w].st # "alive")]_vars


\* C35: the number of the user's records in status RUNNING never exceeds
\* MAX_CONCURRENT_SCRIPTS (all scripts of the model belong to one user).
C35_RunningWithinLimit ==
  RunningCount <= MAX_CONCURRENT_SCRIPTS


\* C36: a log flush of the running supervisor (after a line, or by the
\* heartbeat) changes only the logs of the stored record: status, started_at,
\* completed_at and error_message stay as they are in storage, so a CANCELLED
\* written by the API in the meantime is not put back to RUNNING.
C36_FlushWritesLogsOnly ==
  [][\A w \in Workers :
       (\/ pc[w] = "read" /\ pc'[w] \in {"heartbeat", "loop"}
        \/ pc[w] = "heartbeat" /\ pc'[w] = "loop")
         => \A f \in DOMAIN db[cur[w]] :
              f # "execution_logs" => db'[cur[w]][f] = db[cur[w]][f]]_vars

\* the API wrote CANCELLED while the supervisor waited for output, and the
\* flush of the next line has left it in place
C36_Witness ==
  /\ pc[W1] = "heartbeat"
  /\ db[1].status = CANCELLED
  /\ script[W1].status = RUNNING
  /\ db[1].completed_at < last_db_update[W1]
  /\ logs[W1] # << >>
  /\ db[1].execution_logs = logs[W1]


\* C37: every submission the execute endpoint accepts eventually reaches a
\* terminal status when a worker keeps running and is scheduled fairly: a
\* first run request that is in the queue leads to a record that is
\* COMPLETED, FAILED or CANCELLED.
C37_AcceptedRunsFinish ==
  (queue # << >> /\ Head(queue) = 1 /\ db[1].status = UPLOADED)
     ~> (db[1].status \in Terminal)


\* C38: registry discipline in each worker process: running_processes holds
\* an entry for an id exactly from the launch of its child to the return of
\* execute_script, the entry is for the execution the process is supervising,
\* and once the task has returned, on any path, neither running_processes nor
\* cancelled_scripts holds the id.
C38_RegistryDiscipline ==
  \A w \in Workers :
    /\ running_processes[w] \subseteq {cur[w]} \ {0}
    /\ cur[w] \in running_processes[w]
         <=> (Supervised(w) /\ pc[w] # "preflight")
    /\ cur[w] \in running_processes[w] => process[w].st # "none"
    /\ pc[w] \in {"idle", "done"}
         => (running_processes[w] = {} /\ cancelled_scripts[w] = {})

\* execute_script has returned after it had launched a child and the
\* registries are empty
C38_Witness ==
  /\ pc[W1] = "done"
  /\ cur[W1] = 1
  /\ process[W1].st = "exited"
  /\ result[W1] \in {"cancelled", "failed", COMPLETED, FAILED}
  /\ running_processes[W1] = {}
  /\ cancelled_scripts[W1] = {}

====
